---------------------------- MODULE Spec2Model ----------------------------
(***************************************************************************)
(* Model of makeNbaDb/testit.py: the season download loop that fetches     *)
(* each season's schedule from the remote API and caches it on disk, with  *)
(* the text conversions it relies on (str, string concatenation,           *)
(* os.path.join, json.loads, json.dump).                                   *)
(*                                                                         *)
(* Text is a sequence of one-character strings.  A Python value is a       *)
(* record tagged by its type: [t |-> "null"], [t |-> "bool", v |-> b],     *)
(* [t |-> "int", v |-> n], [t |-> "str", v |-> text],                      *)
(* [t |-> "list", v |-> <<values>>], [t |-> "dict", v |-> <<items>>] with  *)
(* items [k |-> text, v |-> value] in insertion order.                     *)
(***************************************************************************)
EXTENDS Integers, Sequences, FiniteSets, TLC

(***************************************************************************)
(* Bounds of the model.                                                    *)
(***************************************************************************)
MaxSeasons == 3
MaxRuns == 2

Runs == 1..MaxRuns

(***************************************************************************)
(* str(int): decimal text of an integer.                                   *)
(***************************************************************************)
Digits == <<"0", "1", "2", "3", "4", "5", "6", "7", "8", "9">>

RECURSIVE StrNat(_)
StrNat(n) ==
    IF n < 10 THEN <<Digits[n + 1]>>
    ELSE StrNat(n \div 10) \o <<Digits[(n % 10) + 1]>>

str(n) == IF n < 0 THEN <<"-">> \o StrNat(-n) ELSE StrNat(n)

(***************************************************************************)
(* Python values.                                                          *)
(***************************************************************************)
PyNone == [t |-> "null"]
PyBool(b) == [t |-> "bool", v |-> b]
PyInt(n) == [t |-> "int", v |-> n]
PyStr(s) == [t |-> "str", v |-> s]
PyList(xs) == [t |-> "list", v |-> xs]
PyDict(kvs) == [t |-> "dict", v |-> kvs]

(***************************************************************************)
(* json.dump / json.dumps with the default arguments: separators ", " and  *)
(* ": ", strings quoted with the quote, the backslash and the newline      *)
(* escaped.                                                                *)
(***************************************************************************)
\* Variant: no character is escaped.
EscapeCharNone(c) == <<c>>

EscapeChar(c) ==
    IF c = "\"" THEN <<"\\", "\"">>
    ELSE IF c = "\\" THEN <<"\\", "\\">>
    ELSE IF c = "\n" THEN <<"\\", "n">>
    ELSE <<c>>

RECURSIVE EscapeText(_)
EscapeText(s) ==
    IF s = <<>> THEN <<>> ELSE EscapeChar(Head(s)) \o EscapeText(Tail(s))

encode_basestring(s) == <<"\"">> \o EscapeText(s) \o <<"\"">>

RECURSIVE dumps(_)
RECURSIVE DumpItems(_)
RECURSIVE DumpPairs(_)
DumpItems(xs) ==
    IF xs = <<>> THEN <<>>
    ELSE IF Len(xs) = 1 THEN dumps(xs[1])
    ELSE dumps(xs[1]) \o <<",", " ">> \o DumpItems(Tail(xs))

DumpPairs(kvs) ==
    IF kvs = <<>> THEN <<>>
    ELSE LET one == encode_basestring(kvs[1].k) \o <<":", " ">> \o dumps(kvs[1].v)
         IN  IF Len(kvs) = 1 THEN one
             ELSE one \o <<",", " ">> \o DumpPairs(Tail(kvs))

dumps(x) ==
    IF x.t = "null" THEN <<"n", "u", "l", "l">>
    ELSE IF x.t = "bool" THEN
        IF x.v THEN <<"t", "r", "u", "e">> ELSE <<"f", "a", "l", "s", "e">>
    ELSE IF x.t = "int" THEN str(x.v)
    ELSE IF x.t = "str" THEN encode_basestring(x.v)
    ELSE IF x.t = "list" THEN <<"[">> \o DumpItems(x.v) \o <<"]">>
    ELSE <<"{">> \o DumpPairs(x.v) \o <<"}">>

(***************************************************************************)
(* json.loads: the decoder's scanner.  A result is [ok |-> TRUE, val, pos] *)
(* (pos the index after the value) or [ok |-> FALSE] (JSONDecodeError).    *)
(***************************************************************************)
Whitespace == {" ", "\t", "\n", "\r"}
DigitChars == {Digits[k] : k \in 1..10}
DigitVal(c) == CHOOSE k \in 0..9 : Digits[k + 1] = c
Fail == [ok |-> FALSE]
Ok(val, pos) == [ok |-> TRUE, val |-> val, pos |-> pos]

RECURSIVE SkipWs(_, _)
SkipWs(s, p) ==
    IF p <= Len(s) /\ s[p] \in Whitespace THEN SkipWs(s, p + 1) ELSE p

HasAt(s, p, lit) ==
    /\ p + Len(lit) - 1 <= Len(s)
    /\ \A k \in 1..Len(lit) : s[p + k - 1] = lit[k]

\* py_scanstring, strict: p is the index after the opening quote.
RECURSIVE scanstring(_, _, _)
scanstring(s, p, acc) ==
    IF p > Len(s) THEN Fail
    ELSE IF s[p] = "\"" THEN Ok(acc, p + 1)
    ELSE IF s[p] = "\\" THEN
        IF p + 1 > Len(s) THEN Fail
        ELSE IF s[p + 1] \in {"\"", "\\", "/"}
             THEN scanstring(s, p + 2, Append(acc, s[p + 1]))
        ELSE IF s[p + 1] = "n" THEN scanstring(s, p + 2, Append(acc, "\n"))
        ELSE Fail
    ELSE IF s[p] \in {"\n", "\t", "\r"} THEN Fail
    ELSE scanstring(s, p + 1, Append(acc, s[p]))

\* NUMBER_RE restricted to integers: -?(0|[1-9][0-9]*)
RECURSIVE ScanDigits(_, _, _)
ScanDigits(s, p, acc) ==
    IF p <= Len(s) /\ s[p] \in DigitChars
    THEN ScanDigits(s, p + 1, acc * 10 + DigitVal(s[p]))
    ELSE Ok(acc, p)

ScanNat(s, p) ==
    IF p > Len(s) \/ s[p] \notin DigitChars THEN Fail
    ELSE IF s[p] = "0" THEN Ok(0, p + 1)
    ELSE ScanDigits(s, p, 0)

ScanNumber(s, p) ==
    IF p <= Len(s) /\ s[p] = "-"
    THEN LET r == ScanNat(s, p + 1)
         IN  IF r.ok THEN Ok(PyInt(-r.val), r.pos) ELSE Fail
    ELSE LET r == ScanNat(s, p)
         IN  IF r.ok THEN Ok(PyInt(r.val), r.pos) ELSE Fail

\* dict[key] = value while decoding: a repeated key keeps its first place
\* and takes the last value.
SetItem(kvs, key, val) ==
    IF \E j \in 1..Len(kvs) : kvs[j].k = key
    THEN [j \in 1..Len(kvs) |->
             IF kvs[j].k = key THEN [k |-> key, v |-> val] ELSE kvs[j]]
    ELSE Append(kvs, [k |-> key, v |-> val])

RECURSIVE scan_once(_, _)
RECURSIVE JSONArray(_, _, _)
RECURSIVE JSONObject(_, _, _)

\* p is the index of the next element of the array; acc the elements read.
JSONArray(s, p, acc) ==
    LET r == scan_once(s, p)
    IN  IF ~r.ok THEN Fail
        ELSE LET q == SkipWs(s, r.pos)
                 items == Append(acc, r.val)
             IN  IF q > Len(s) THEN Fail
                 ELSE IF s[q] = "]" THEN Ok(PyList(items), q + 1)
                 ELSE IF s[q] = "," THEN JSONArray(s, SkipWs(s, q + 1), items)
                 ELSE Fail

\* p is the index of the opening quote of the next key; acc the items read.
JSONObject(s, p, acc) ==
    IF p > Len(s) \/ s[p] # "\"" THEN Fail
    ELSE LET key == scanstring(s, p + 1, <<>>)
         IN  IF ~key.ok THEN Fail
             ELSE LET c == SkipWs(s, key.pos)
                  IN  IF c > Len(s) \/ s[c] # ":" THEN Fail
                      ELSE LET r == scan_once(s, SkipWs(s, c + 1))
                           IN  IF ~r.ok THEN Fail
                               ELSE LET q == SkipWs(s, r.pos)
                                        items == SetItem(acc, key.val, r.val)
                                    IN  IF q > Len(s) THEN Fail
                                        ELSE IF s[q] = "}"
                                             THEN Ok(PyDict(items), q + 1)
                                        ELSE IF s[q] = ","
                                             THEN JSONObject(s, SkipWs(s, q + 1), items)
                                        ELSE Fail

scan_once(s, p) ==
    IF p > Len(s) THEN Fail
    ELSE IF s[p] = "\"" THEN
        LET r == scanstring(s, p + 1, <<>>)
        IN  IF r.ok THEN Ok(PyStr(r.val), r.pos) ELSE Fail
    ELSE IF s[p] = "{" THEN
        LET q == SkipWs(s, p + 1)
        IN  IF q <= Len(s) /\ s[q] = "}" THEN Ok(PyDict(<<>>), q + 1)
            ELSE JSONObject(s, q, <<>>)
    ELSE IF s[p] = "[" THEN
        LET q == SkipWs(s, p + 1)
        IN  IF q <= Len(s) /\ s[q] = "]" THEN Ok(PyList(<<>>), q + 1)
            ELSE JSONArray(s, q, <<>>)
    ELSE IF HasAt(s, p, <<"n", "u", "l", "l">>) THEN Ok(PyNone, p + 4)
    ELSE IF HasAt(s, p, <<"t", "r", "u", "e">>) THEN Ok(PyBool(TRUE), p + 4)
    ELSE IF HasAt(s, p, <<"f", "a", "l", "s", "e">>) THEN Ok(PyBool(FALSE), p + 5)
    ELSE ScanNumber(s, p)

\* JSONDecoder.decode: one value between optional whitespace, nothing after.
loads(s) ==
    LET r == scan_once(s, SkipWs(s, 1))
    IN  IF ~r.ok THEN Fail
        ELSE IF SkipWs(s, r.pos) # Len(s) + 1 THEN Fail
        ELSE r


(***************************************************************************)
(* Program constants and inputs.                                           *)
(***************************************************************************)
\* os.sep where the script's paths ("D:/...") live.
sep == "\\"
join(a, b) == a \o <<sep>> \o b

nbaDir == <<"D", ":", "/", "n", "b", "a", "B", "l", "o", "g">>
schedDir == join(nbaDir, <<"s", "c", "h", "e", "d", "u", "l", "e", "s">>)

\* srNBAKey.value: the API key the secret manager returns.
srNBAKey == <<"K">>

\* Season type codes and the seasons the listing endpoint may return.
REG == <<"R", "E", "G">>
PST == <<"P", "S", "T">>
REG20 == <<"R", "E", "G", "2", "0">>
Season(y, c) == [year |-> y, type |-> [code |-> c]]
Seasons == {Season(2021, REG), Season(2022, PST), Season(21, REG20)}
SeasonLists == UNION {[1..n -> Seasons] : n \in 0..MaxSeasons}

\* Response bodies of the schedule endpoint, after data.decode("utf8").
BodySpaced == <<"[", "\"", "\\", "/", "\\", "\"", "\"", " ", " ", "]">>
BodyMessage == <<"{", "\"", "\"", ":", "1", ",", "\"", "\"", ":", "0", "}">>
BodyHtml == <<"<", "h", "1", ">">>
Responses ==
    { [status |-> 200, body |-> BodySpaced],
      [status |-> 429, body |-> BodyMessage],
      [status |-> 503, body |-> BodyHtml] }

\* Files the schedule directory may hold before the first run.
SchedREG2021 ==
    <<"s", "c", "h", "e", "d", "R", "E", "G", "2", "0", "2", "1", ".", "j", "s", "o", "n">>
OldText == <<"[", "]">>
InitialFiles ==
    UNION {[S -> {OldText}] : S \in SUBSET {join(schedDir, SchedREG2021)}}

(***************************************************************************)
(* State.                                                                  *)
(*   pc[r]         position of run r of the script                         *)
(*   allSeasons[r] the season list run r obtained from the listing call    *)
(*   i[r]          index of the season the loop of run r is at             *)
(*   seas[r]       the value getSchedule returned in the current iteration *)
(*   files         the schedule directory: path -> text of the file        *)
(*   log[r]        the effects of run r in order: existence checks,        *)
(*                 notices printed, sleeps, requests, returns, raises,     *)
(*                 opens and dumps                                         *)
(*   startFiles[r] the directory as run r found it                         *)
(***************************************************************************)
VARIABLES pc, allSeasons, i, seas, files, log, startFiles

vars == <<pc, allSeasons, i, seas, files, log, startFiles>>

Ended == {"done", "aborted", "crashed"}

\* Locals of the loop body (lines 47-50).
season(r) == allSeasons[r][i[r]]
year(r) == season(r).year
type(r) == season(r).type.code
\* Variant: the year before the type code.
makeFileNameYearFirst(y, c) ==
    <<"s", "c", "h", "e", "d">> \o str(y) \o c \o <<".", "j", "s", "o", "n">>

\* Line 49
makeFileName(y, c) ==
    <<"s", "c", "h", "e", "d">> \o c \o str(y) \o <<".", "j", "s", "o", "n">>
fileName(r) == makeFileName(year(r), type(r))
\* Variant: the file name without the directory.
outpathCwd(r) == fileName(r)

\* Line 50
outpath(r) == join(schedDir, fileName(r))

\* Variants: the test inverted, the test always false, and a test that also
\* asks for a text that parses.
existsInverted(path) == path \notin DOMAIN files

existsNever(path) == FALSE

existsAndParses(path) == path \in DOMAIN files /\ loads(files[path]).ok

\* os.path.exists
exists(path) == path \in DOMAIN files

WriteFile(path, text) ==
    [q \in DOMAIN files \cup {path} |-> IF q = path THEN text ELSE files[q]]

Emit(r, ev) == log' = [log EXCEPT ![r] = Append(@, ev)]
Emit2(r, ev1, ev2) == log' = [log EXCEPT ![r] = @ \o <<ev1, ev2>>]

scheduleUrl(y, seasonType, apiKey) ==
    <<"/", "n", "b", "a", "/", "t", "r", "i", "a", "l", "/", "v", "7", "/", "e", "n",
      "/", "g", "a", "m", "e", "s", "/">>
    \o str(y) \o <<"/">> \o seasonType
    \o <<"/", "s", "c", "h", "e", "d", "u", "l", "e", ".", "j", "s", "o", "n",
         "?", "a", "p", "i", "_", "k", "e", "y", "=">>
    \o apiKey

Request(r, y, seasonType, apiKey) ==
    [e |-> "request", i |-> i[r], year |-> y, seasonType |-> seasonType,
     apiKey |-> apiKey, url |-> scheduleUrl(y, seasonType, apiKey)]

Init ==
    /\ pc = [r \in Runs |-> "idle"]
    /\ allSeasons = [r \in Runs |-> <<>>]
    /\ i = [r \in Runs |-> 0]
    /\ seas = [r \in Runs |-> PyNone]
    /\ files \in InitialFiles
    /\ log = [r \in Runs |-> <<>>]
    /\ startFiles = [r \in Runs |-> <<>>]

(***************************************************************************)
(* Lines 9-34: setup and the listing call.                                 *)
(***************************************************************************)
Setup(r, seasons) ==
    /\ pc[r] = "idle"
    /\ pc' = [pc EXCEPT ![r] = "for"]
    /\ allSeasons' = [allSeasons EXCEPT ![r] = seasons]
    /\ startFiles' = [startFiles EXCEPT ![r] = files]
    /\ UNCHANGED <<i, seas, files, log>>

\* One run after the other: the single writer.
StartRun(r) ==
    /\ \A q \in Runs : q < r => pc[q] \in Ended
    /\ \E seasons \in SeasonLists : Setup(r, seasons)

\* Runs started while others are still running; they are given the same
\* listing.
StartConcurrentRun(r) ==
    \E seasons \in SeasonLists :
        /\ \A q \in Runs : pc[q] # "idle" => allSeasons[q] = seasons
        /\ Setup(r, seasons)

\* The config file, the secret or the listing call raises.
SetupFails(r) ==
    /\ pc[r] = "idle"
    /\ \A q \in Runs : q < r => pc[q] \in Ended
    /\ pc' = [pc EXCEPT ![r] = "aborted"]
    /\ startFiles' = [startFiles EXCEPT ![r] = files]
    /\ UNCHANGED <<allSeasons, i, seas, files, log>>

(***************************************************************************)
(* Lines 46-53: the next season, its file name, the existence check.       *)
(***************************************************************************)
For(r) ==
    /\ pc[r] = "for"
    /\ IF i[r] = Len(allSeasons[r])
       THEN /\ pc' = [pc EXCEPT ![r] = "done"]
            /\ UNCHANGED <<i, log>>
       ELSE /\ i' = [i EXCEPT ![r] = @ + 1]
            /\ LET s == allSeasons[r][i[r] + 1]
                   path == join(schedDir, makeFileName(s.year, s.type.code))
               IN  /\ log' = [log EXCEPT ![r] = Append(@,
                           [e |-> "exists", i |-> i[r] + 1, path |-> path,
                            found |-> exists(path)])]
                   /\ pc' = [pc EXCEPT ![r] =
                                IF exists(path) THEN "for" ELSE "print"]
    /\ UNCHANGED <<allSeasons, seas, files, startFiles>>

\* Line 54
PrintNotice(r) ==
    /\ pc[r] = "print"
    /\ Emit(r, [e |-> "print", i |-> i[r], text |-> <<"d", "o", "w", "n", "l", "o", "a", "d", "i", "n", "g", " ">> \o fileName(r)])
    /\ pc' = [pc EXCEPT ![r] = "sleep"]
    /\ UNCHANGED <<allSeasons, i, seas, files, startFiles>>

\* Variant: no sleep.
SleepSkipped(r) ==
    /\ pc[r] = "sleep"
    /\ pc' = [pc EXCEPT ![r] = "getSchedule"]
    /\ UNCHANGED <<allSeasons, i, seas, files, log, startFiles>>

\* Line 55
Sleep(r) ==
    /\ pc[r] = "sleep"
    /\ Emit(r, [e |-> "sleep", i |-> i[r], secs |-> 1])
    /\ pc' = [pc EXCEPT ![r] = "getSchedule"]
    /\ UNCHANGED <<allSeasons, i, seas, files, startFiles>>

(***************************************************************************)
(* Line 56 and getSchedule (lines 37-42).                                  *)
(***************************************************************************)
\* Variant: the exception is caught and the loop goes on.
RaiseSwallowed(r) == pc' = [pc EXCEPT ![r] = "for"]

\* An exception nothing catches ends the script.
Raise(r) == pc' = [pc EXCEPT ![r] = "aborted"]

\* The connection fails or times out in conn.request / conn.getresponse.
GetScheduleNetworkError(r) ==
    /\ pc[r] = "getSchedule"
    /\ Emit2(r, Request(r, year(r), type(r), srNBAKey),
                [e |-> "raise", i |-> i[r]])
    /\ Raise(r)
    /\ UNCHANGED <<allSeasons, i, seas, files, startFiles>>

\* The host answers; the status is not looked at, the body is parsed.
GetScheduleResponse(r) ==
    /\ pc[r] = "getSchedule"
    /\ \E res \in Responses :
          LET parsed == loads(res.body)
          IN  IF parsed.ok
              THEN /\ seas' = [seas EXCEPT ![r] = parsed.val]
                   /\ Emit2(r, Request(r, year(r), type(r), srNBAKey),
                               [e |-> "return", i |-> i[r],
                                status |-> res.status, val |-> parsed.val])
                   /\ pc' = [pc EXCEPT ![r] = "open"]
              ELSE /\ Emit2(r, Request(r, year(r), type(r), srNBAKey),
                               [e |-> "raise", i |-> i[r]])
                   /\ Raise(r)
                   /\ UNCHANGED seas
    /\ UNCHANGED <<allSeasons, i, files, startFiles>>

(***************************************************************************)
(* Lines 57-58: open(outpath, 'w') creates or truncates the file, json.dump*)
(* writes the text, leaving the with block closes it.                      *)
(***************************************************************************)
Open(r) ==
    /\ pc[r] = "open"
    /\ files' = WriteFile(outpath(r), <<>>)
    /\ Emit(r, [e |-> "open", i |-> i[r], path |-> outpath(r)])
    /\ pc' = [pc EXCEPT ![r] = "dump"]
    /\ UNCHANGED <<allSeasons, i, seas, startFiles>>

Dump(r) ==
    /\ pc[r] = "dump"
    /\ files' = WriteFile(outpath(r), dumps(seas[r]))
    /\ Emit(r, [e |-> "dump", i |-> i[r], path |-> outpath(r), obj |-> seas[r]])
    /\ pc' = [pc EXCEPT ![r] = "for"]
    /\ seas' = [seas EXCEPT ![r] = PyNone]
    /\ UNCHANGED <<allSeasons, i, startFiles>>

\* The process dies while the file is open for writing: some proper prefix
\* of the text has reached the disk.
Crash(r) ==
    /\ pc[r] = "dump"
    /\ \E n \in 0..(Len(dumps(seas[r])) - 1) :
          files' = WriteFile(outpath(r), SubSeq(dumps(seas[r]), 1, n))
    /\ pc' = [pc EXCEPT ![r] = "crashed"]
    /\ UNCHANGED <<allSeasons, i, seas, log, startFiles>>

Step(r) ==
    \/ For(r)
    \/ PrintNotice(r)
    \/ Sleep(r)
    \/ GetScheduleNetworkError(r)
    \/ GetScheduleResponse(r)
    \/ Open(r)
    \/ Dump(r)
    \/ Crash(r)

Next == \E r \in Runs : StartRun(r) \/ SetupFails(r) \/ Step(r)

Spec == Init /\ [][Next]_vars

\* Runs that overlap in time; no process dies.
NextConc ==
    \E r \in Runs :
        \/ StartConcurrentRun(r)
        \/ For(r)
        \/ PrintNotice(r)
        \/ Sleep(r)
        \/ GetScheduleNetworkError(r)
        \/ GetScheduleResponse(r)
        \/ Open(r)
        \/ Dump(r)

SpecConc == Init /\ [][NextConc]_vars


(***************************************************************************)
(* Reading the log.                                                        *)
(***************************************************************************)
Present(path) == path \in DOMAIN files

LaterIdle(r) == \A q \in Runs : q > r => pc[q] = "idle"

KeyPath(s) == join(schedDir, makeFileName(s.year, s.type.code))

\* Positions in log[r] of the events of kind e of iteration j.
At(r, e, j) == {k \in DOMAIN log[r] : log[r][k].e = e /\ log[r][k].i = j}

\* Positions in log[r] of the requests for season s.
RequestsFor(r, s) ==
    {k \in DOMAIN log[r] :
        /\ log[r][k].e = "request"
        /\ log[r][k].year = s.year
        /\ log[r][k].seasonType = s.type.code}

Returned(r, j) == log[r][CHOOSE k \in At(r, "return", j) : TRUE].val

Distinct(seq) == \A a, b \in DOMAIN seq : a # b => seq[a] # seq[b]

IsProperPrefix(a, b) == Len(a) < Len(b) /\ a = SubSeq(b, 1, Len(a))

(***************************************************************************)
(* C1: idempotence.  When a run of the loop has completed without error    *)
(* and the next run, over the same season list and alone on the directory, *)
(* has started, that next run has made no getSchedule request and every    *)
(* file is as the run found it.                                            *)
(***************************************************************************)
Idempotence ==
    \A r \in Runs :
        ( /\ r + 1 \in Runs
          /\ pc[r] = "done"
          /\ pc[r + 1] # "idle"
          /\ allSeasons[r + 1] = allSeasons[r]
          /\ LaterIdle(r + 1) )
        => /\ \A k \in DOMAIN log[r + 1] : log[r + 1][k].e # "request"
           /\ files = startFiles[r + 1]

\* The first run downloaded two files, the second run over the same list is
\* through.
IdempotenceWitness ==
    /\ pc[1] = "done"
    /\ pc[2] = "done"
    /\ allSeasons[2] = allSeasons[1]
    /\ \E k1, k2 \in DOMAIN log[1] :
          /\ log[1][k1].e = "dump"
          /\ log[1][k2].e = "dump"
          /\ log[1][k1].path # log[1][k2].path

(***************************************************************************)
(* C2: exactly-once fetch and persist.  In a run that has completed        *)
(* without error over pairwise-distinct seasons, every season is requested *)
(* at most once, and every season whose file was not there when the run    *)
(* started is requested exactly once and its file, re-parsed, is what that *)
(* request returned.                                                       *)
(***************************************************************************)
ExactlyOnceFetch ==
    \A r \in Runs :
        (pc[r] = "done" /\ LaterIdle(r) /\ Distinct(allSeasons[r]))
        => \A j \in DOMAIN allSeasons[r] :
              LET s == allSeasons[r][j]
                  path == KeyPath(s)
              IN  /\ Cardinality(RequestsFor(r, s)) <= 1
                  /\ path \notin DOMAIN startFiles[r]
                     => /\ Cardinality(RequestsFor(r, s)) = 1
                        /\ At(r, "return", j) # {}
                        /\ path \in DOMAIN files
                        /\ loads(files[path]).ok
                        /\ loads(files[path]).val = Returned(r, j)

(***************************************************************************)
(* C3: skip on presence.  A step of the loop that finds the file of the    *)
(* next season present only records the check and moves to the next        *)
(* season: no notice, no sleep, no request, no write.  And no step of any  *)
(* iteration or run changes or removes a file, except the file the running *)
(* iteration has opened and not yet closed.                                *)
(***************************************************************************)
SkipStep(r) ==
    ( /\ pc[r] = "for"
      /\ i[r] < Len(allSeasons[r])
      /\ i'[r] # i[r]
      /\ Present(KeyPath(allSeasons[r][i[r] + 1])) )
    => /\ files' = files
       /\ pc'[r] = "for"
       /\ i'[r] = i[r] + 1
       /\ log'[r] = Append(log[r],
              [e |-> "exists", i |-> i[r] + 1,
               path |-> KeyPath(allSeasons[r][i[r] + 1]), found |-> TRUE])

EntriesKept ==
    \A path \in DOMAIN files :
        (\A r \in Runs : ~(pc[r] = "dump" /\ outpath(r) = path))
        => path \in DOMAIN files' /\ files'[path] = files[path]

SkipOnPresence == [][EntriesKept /\ \A r \in Runs : SkipStep(r)]_vars

\* The second run has skipped a file that the first run wrote, and a file
\* that was there before the first run.
SkipOnPresenceWitness ==
    /\ pc[2] = "done"
    /\ \E k \in DOMAIN log[2] :
          /\ log[2][k].e = "exists"
          /\ log[2][k].found
          /\ log[2][k].path \notin DOMAIN startFiles[1]
    /\ \E k \in DOMAIN log[2] :
          /\ log[2][k].e = "exists"
          /\ log[2][k].found
          /\ log[2][k].path \in DOMAIN startFiles[1]

(***************************************************************************)
(* C4: fetch on absence, lossless persistence.  For every file a run has   *)
(* written, the iteration made exactly one request, with the year and type *)
(* code of its season and the API key in the arguments and in the URL, and *)
(* the file's text parses back to the value getSchedule returned for it.   *)
(* An iteration that found its file absent has made one request once it is *)
(* past getSchedule, and none before.                                      *)
(***************************************************************************)
RECURSIVE Find(_, _, _)
Find(text, c, from) ==
    \* the first index >= from of c in text, Len(text) + 1 when there is none
    IF from > Len(text) \/ text[from] = c THEN from ELSE Find(text, c, from + 1)

RECURSIVE FindNth(_, _, _, _)
FindNth(text, c, n, from) ==
    IF n = 1 THEN Find(text, c, from)
    ELSE FindNth(text, c, n - 1, Find(text, c, from) + 1)

\* The year and season type segments and the api_key value of a request URL
\* /nba/trial/v7/en/games/<year>/<seasonType>/schedule.json?api_key=<key>
UrlParts(url) ==
    LET s6 == FindNth(url, "/", 6, 1)
        s7 == Find(url, "/", s6 + 1)
        s8 == Find(url, "/", s7 + 1)
        eq == Find(url, "=", s8 + 1)
    IN  [year |-> SubSeq(url, s6 + 1, s7 - 1),
         seasonType |-> SubSeq(url, s7 + 1, s8 - 1),
         apiKey |-> SubSeq(url, eq + 1, Len(url))]

FetchOnAbsence ==
    \A r \in Runs :
        /\ \A k \in DOMAIN log[r] :
              log[r][k].e = "dump" =>
                 LET j == log[r][k].i
                     s == allSeasons[r][j]
                     path == log[r][k].path
                 IN  /\ Cardinality(At(r, "request", j)) = 1
                     /\ \A q \in At(r, "request", j) :
                           LET u == UrlParts(log[r][q].url)
                           IN  /\ log[r][q].year = s.year
                               /\ log[r][q].seasonType = s.type.code
                               /\ log[r][q].apiKey = srNBAKey
                               /\ ScanNat(u.year, 1) = Ok(s.year, Len(u.year) + 1)
                               /\ u.seasonType = s.type.code
                               /\ u.apiKey = srNBAKey
                     /\ At(r, "return", j) # {}
                     /\ path \in DOMAIN files
                     /\ loads(files[path]).ok
                     /\ loads(files[path]).val = Returned(r, j)
        /\ \A k \in DOMAIN log[r] :
              (log[r][k].e = "exists" /\ ~log[r][k].found) =>
                 LET j == log[r][k].i
                     past == At(r, "return", j) # {} \/ At(r, "raise", j) # {}
                 IN  Cardinality(At(r, "request", j)) = IF past THEN 1 ELSE 0

\* The directory was empty, the only season is PST 2022: one request for
\* 2022 / PST was made and schedPST2022.json holds what it returned.
FetchOnAbsenceWitness ==
    /\ DOMAIN startFiles[1] = {}
    /\ allSeasons[1] = <<Season(2022, PST)>>
    /\ pc[1] = "done"
    /\ Cardinality(RequestsFor(1, Season(2022, PST))) = 1
    /\ DOMAIN files = {join(schedDir,
           <<"s", "c", "h", "e", "d", "P", "S", "T", "2", "0", "2", "2",
             ".", "j", "s", "o", "n">>)}
    /\ \E k \in DOMAIN log[1] :
          log[1][k].e = "return" /\ log[1][k].val.t = "list"

(***************************************************************************)
(* C5: the cache key.  Every path the loop checks is schedDir joined with  *)
(* "sched" + type code + decimal year + ".json" of the iteration's season  *)
(* (season 2021 / REG gives exactly schedREG2021.json); the notice, the    *)
(* open and the dump of the iteration use the same name; and two           *)
(* iterations, of any runs, at any positions and over any directory        *)
(* contents, on the same season check the same path.                       *)
(***************************************************************************)
HasKeyFormat(key, s) ==
    LET pre == <<"s", "c", "h", "e", "d">>
        suf == <<".", "j", "s", "o", "n">>
        code == s.type.code
        nYear == Len(key) - Len(pre) - Len(code) - Len(suf)
        digits == SubSeq(key, Len(pre) + Len(code) + 1, Len(pre) + Len(code) + nYear)
    IN  /\ nYear >= 1
        /\ SubSeq(key, 1, Len(pre)) = pre
        /\ SubSeq(key, Len(pre) + 1, Len(pre) + Len(code)) = code
        /\ ScanNat(digits, 1) = Ok(s.year, nYear + 1)
        /\ SubSeq(key, Len(key) - Len(suf) + 1, Len(key)) = suf

KeyOfPath(path) == SubSeq(path, Len(schedDir) + 2, Len(path))

CacheKeyDeterministic ==
    /\ \A r \in Runs : \A k \in DOMAIN log[r] :
          LET ev == log[r][k]
              s == allSeasons[r][ev.i]
          IN  /\ ev.e = "exists" =>
                    /\ SubSeq(ev.path, 1, Len(schedDir) + 1) = schedDir \o <<sep>>
                    /\ HasKeyFormat(KeyOfPath(ev.path), s)
                    /\ s = Season(2021, REG) => KeyOfPath(ev.path) = SchedREG2021
              /\ ev.e \in {"open", "dump"} =>
                    \A m \in At(r, "exists", ev.i) : log[r][m].path = ev.path
              /\ ev.e = "print" =>
                    \A m \in At(r, "exists", ev.i) :
                        KeyOfPath(log[r][m].path)
                            = SubSeq(ev.text, Len(ev.text) - Len(KeyOfPath(log[r][m].path)) + 1,
                                     Len(ev.text))
    /\ \A r1, r2 \in Runs : \A k1 \in DOMAIN log[r1], k2 \in DOMAIN log[r2] :
          ( /\ log[r1][k1].e = "exists"
            /\ log[r2][k2].e = "exists"
            /\ allSeasons[r1][log[r1][k1].i] = allSeasons[r2][log[r2][k2].i] )
          => log[r1][k1].path = log[r2][k2].path

\* Season 2021 / REG was checked first in the list of run 1, on an empty
\* directory, and last in the list of run 2, on a directory with files.
CacheKeyWitness ==
    /\ DOMAIN startFiles[1] = {}
    /\ \E k \in DOMAIN log[1] :
          /\ log[1][k].e = "exists"
          /\ log[1][k].i = 1
          /\ allSeasons[1][1] = Season(2021, REG)
    /\ DOMAIN startFiles[2] # {}
    /\ \E k \in DOMAIN log[2] :
          /\ log[2][k].e = "exists"
          /\ log[2][k].i = 3
          /\ allSeasons[2][3] = Season(2021, REG)

(***************************************************************************)
(* C6: fail fast.  When getSchedule has raised for the k-th season of a    *)
(* run, that is the last thing the run did: it is aborted at the k-th      *)
(* season, it made one request for it, and (until another run starts) the  *)
(* directory holds the files the run found, unchanged, plus the files the  *)
(* run dumped for seasons before the k-th.                                 *)
(***************************************************************************)
FailFast ==
    \A r \in Runs : \A k \in DOMAIN log[r] :
        log[r][k].e = "raise" =>
            LET j == log[r][k].i
                dumped == {m \in DOMAIN log[r] : log[r][m].e = "dump"}
            IN  /\ k = Len(log[r])
                /\ pc[r] = "aborted"
                /\ i[r] = j
                /\ Cardinality(At(r, "request", j)) = 1
                /\ \A m \in dumped : log[r][m].i < j
                /\ LaterIdle(r) =>
                      /\ DOMAIN files
                            = DOMAIN startFiles[r] \cup {log[r][m].path : m \in dumped}
                      /\ \A path \in DOMAIN startFiles[r] :
                            files[path] = startFiles[r][path]
                      /\ \A m \in dumped :
                            files[log[r][m].path] = dumps(log[r][m].obj)

\* getSchedule raised for the second of three seasons, after the first was
\* downloaded; the third has no file.
FailFastWitness ==
    \E r \in Runs :
        /\ pc[r] = "aborted"
        /\ Len(allSeasons[r]) = 3
        /\ At(r, "dump", 1) # {}
        /\ At(r, "raise", 2) # {}
        /\ ~Present(KeyPath(allSeasons[r][3]))

(***************************************************************************)
(* C7: a non-success response is fatal.  Whenever the host answered a      *)
(* schedule request with a status outside 200..299, the run is aborted and *)
(* nothing was opened or written for that season.                          *)
(***************************************************************************)
NonSuccessIsFatal ==
    \A r \in Runs : \A k \in DOMAIN log[r] :
        (log[r][k].e = "return" /\ log[r][k].status \notin 200..299)
        => /\ pc[r] = "aborted"
           /\ At(r, "open", log[r][k].i) = {}
           /\ At(r, "dump", log[r][k].i) = {}

(***************************************************************************)
(* C8: runs that overlap race on the existence check.  Each run alone      *)
(* still requests a file name at most once; but a run may be about to      *)
(* request or write a file that exists by now, and then another run        *)
(* opened it after this run's check.                                       *)
(***************************************************************************)
RaceOnExistenceCheck ==
    \A r \in Runs :
        /\ \A k1, k2 \in DOMAIN log[r] :
              ( /\ k1 # k2
                /\ log[r][k1].e = "request"
                /\ log[r][k2].e = "request" )
              => makeFileName(log[r][k1].year, log[r][k1].seasonType)
                    # makeFileName(log[r][k2].year, log[r][k2].seasonType)
        /\ ( /\ pc[r] \in {"print", "sleep", "getSchedule", "open"}
             /\ Present(outpath(r)) )
           => \E q \in Runs \ {r} : \E m \in DOMAIN log[q] :
                 log[q][m].e = "open" /\ log[q][m].path = outpath(r)

\* Two runs found the same file absent, both requested it and both dumped
\* it.
RaceWitness ==
    \E k1 \in DOMAIN log[1], k2 \in DOMAIN log[2] :
        /\ log[1][k1].e = "dump"
        /\ log[2][k2].e = "dump"
        /\ log[1][k1].path = log[2][k2].path
        /\ RequestsFor(1, allSeasons[1][log[1][k1].i]) # {}
        /\ RequestsFor(2, allSeasons[2][log[2][k2].i]) # {}

(***************************************************************************)
(* C9: the non-atomic write.  After a run died between open and the end of *)
(* json.dump, its file stays on disk as a proper prefix of the text, and   *)
(* no later run requests a season with that file name or opens the file.   *)
(***************************************************************************)
CorruptEntryKept ==
    \A r \in Runs :
        pc[r] = "crashed" =>
            /\ Present(outpath(r))
            /\ IsProperPrefix(files[outpath(r)], dumps(seas[r]))
            /\ \A q \in Runs : \A m \in DOMAIN log[q] :
                  q > r =>
                     /\ log[q][m].e = "request" =>
                           KeyPath(allSeasons[q][log[q][m].i]) # outpath(r)
                     /\ log[q][m].e \in {"open", "dump"} =>
                           log[q][m].path # outpath(r)

\* Run 1 died leaving a text that does not parse; run 2 went through a list
\* with the same season and skipped it.
CorruptEntryWitness ==
    /\ pc[1] = "crashed"
    /\ pc[2] = "done"
    /\ \E j \in DOMAIN allSeasons[2] : allSeasons[2][j] = season(1)
    /\ ~loads(files[outpath(1)]).ok

(***************************************************************************)
(* C10: throttle and order of the steps.  Every request is directly        *)
(* preceded, in the same iteration, by a sleep of 1 second, that by the    *)
(* notice, that by the check that found the file absent; every open is     *)
(* directly preceded by the return of getSchedule of the same iteration;   *)
(* and while an iteration is before its open, its file is not there.       *)
(***************************************************************************)
ThrottleAndOrder ==
    \A r \in Runs :
        /\ \A k \in DOMAIN log[r] :
              /\ log[r][k].e = "request" =>
                    /\ k >= 4
                    /\ log[r][k - 1].e = "sleep"
                    /\ log[r][k - 1].secs = 1
                    /\ log[r][k - 1].i = log[r][k].i
                    /\ log[r][k - 2].e = "print"
                    /\ log[r][k - 2].i = log[r][k].i
                    /\ log[r][k - 3].e = "exists"
                    /\ ~log[r][k - 3].found
                    /\ log[r][k - 3].i = log[r][k].i
              /\ log[r][k].e = "open" =>
                    /\ log[r][k - 1].e = "return"
                    /\ log[r][k - 1].i = log[r][k].i
                    /\ log[r][k - 2].e = "request"
              /\ log[r][k].e = "dump" =>
                    /\ log[r][k - 1].e = "open"
                    /\ log[r][k - 1].path = log[r][k].path
        /\ pc[r] \in {"print", "sleep", "getSchedule", "open"} => ~Present(outpath(r))

\* A run made two requests, each after its own sleep, and wrote both files.
ThrottleWitness ==
    \E r \in Runs :
        /\ Cardinality({k \in DOMAIN log[r] : log[r][k].e = "request"}) = 2
        /\ Cardinality({k \in DOMAIN log[r] : log[r][k].e = "sleep"}) = 2
        /\ Cardinality({k \in DOMAIN log[r] : log[r][k].e = "dump"}) = 2

=============================================================================
